---- MODULE Spec2Model ----
(***************************************************************************)
(* Model of src/src/api/api.ts: the HIV-risk scoring call getMLRiskScore   *)
(* (feature encoding, one outbound request, threshold classification) and  *)
(* the form lookup fetchOpenMRSForm.                                       *)
(*                                                                         *)
(* JavaScript values are records tagged with their type, so that the `==`, *)
(* `<` and `>` of the source are computed with their coercions.  Strings   *)
(* are sequences of one-character strings.  Probabilities are integers in  *)
(* units of 10^-9, the precision of the thresholds in the source.          *)
(***************************************************************************)
EXTENDS Integers, Sequences, FiniteSets, TLC

(* ---------------------------- bounds ----------------------------------- *)

\* a RawInput differs from the typical one in at most this many positions
MaxVaried == 2
\* months-since-last-test values run up to this number
MaxMonths == 2
\* a form search returns at most this many results
MaxResults == 2

(* ------------------------- JavaScript values --------------------------- *)

Num(n) == [t |-> "number", n |-> n, s |-> <<>>]
Str(s) == [t |-> "string", n |-> 0, s |-> s]
Undefined == [t |-> "undefined", n |-> 0, s |-> <<>>]
NaN == [t |-> "NaN", n |-> 0, s |-> <<>>]

DigitChars == {"0", "1", "2", "3", "4", "5", "6", "7", "8", "9"}

DigitVal == ("0" :> 0) @@ ("1" :> 1) @@ ("2" :> 2) @@ ("3" :> 3) @@ ("4" :> 4) @@
            ("5" :> 5) @@ ("6" :> 6) @@ ("7" :> 7) @@ ("8" :> 8) @@ ("9" :> 9)

DigitChar == <<"0", "1", "2", "3", "4", "5", "6", "7", "8", "9">>

\* the decimal digits of a natural number, as a string
RECURSIVE Chars(_)
Chars(n) == IF n < 10 THEN <<DigitChar[n + 1]>>
            ELSE Chars(n \div 10) \o <<DigitChar[(n % 10) + 1]>>

\* a long-form coded identifier: the concept number padded with 'A' to 36
Concept(n) == Str(Chars(n) \o [i \in 1..(36 - Len(Chars(n))) |-> "A"])

\* the value of a string of decimal digits
RECURSIVE DecimalValue(_)
DecimalValue(s) == IF s = <<>> THEN 0
                   ELSE 10 * DecimalValue(SubSeq(s, 1, Len(s) - 1)) + DigitVal[s[Len(s)]]

\* ToNumber: the empty string is 0, a string of digits is its value, any
\* other string is NaN; undefined is NaN
ToNumber(v) ==
  CASE v.t = "number" -> v
    [] v.t = "NaN" -> NaN
    [] v.t = "undefined" -> NaN
    [] v.t = "string" ->
         IF \A i \in 1..Len(v.s) : v.s[i] \in DigitChars
         THEN Num(DecimalValue(v.s))
         ELSE NaN

\* x == y
LooseEq(x, y) ==
  CASE x.t = "NaN" \/ y.t = "NaN" -> FALSE
    [] x.t = y.t -> x = y
    [] x.t = "undefined" \/ y.t = "undefined" -> FALSE
    [] x.t = "number" /\ y.t = "string" -> ToNumber(y).t = "number" /\ ToNumber(y).n = x.n
    [] x.t = "string" /\ y.t = "number" -> ToNumber(x).t = "number" /\ ToNumber(x).n = y.n

\* x < y, for a number on the right-hand side
LessThan(x, y) ==
  ToNumber(x).t = "number" /\ ToNumber(y).t = "number" /\ ToNumber(x).n < ToNumber(y).n

\* x > y, for a number on the right-hand side
GreaterThan(x, y) == LessThan(y, x)

(* --------------------------- Feature Encoder --------------------------- *)

\* the mutually-exclusive indicator groups of predictionVariables
GenderFields == {"GenderMale", "GenderFemale"}
KeyPopulationFields == {"KeyPopulationTypeGP", "KeyPopulationTypeSW"}
MaritalCodedFields == {"MaritalStatusMarried", "MaritalStatusDivorced", "MaritalStatusPolygamous",
                       "MaritalStatusWidowed", "MaritalStatusSingle"}
MaritalStatusFields == MaritalCodedFields \cup {"MaritalStatusMinor"}
DisabilityFields == {"PatientDisabledNo", "PatientDisabledDisabled"}
EverTestedFields == {"EverTestedForHIVYes", "EverTestedForHivNo"}
TestedAsFields == {"ClientTestedAsIndividual", "ClientTestedAsCouple"}
EntryPointFields == {"EntryPointVCT", "EntryPointOPD", "EntryPointMTC", "EntryPointIPD",
                     "EntryPointMOBILE", "EntryPointOther", "EntryPointHB", "EntryPointPEDS",
                     "EntryPointVMMC", "EntryPointTB", "EntryPointCCC", "EntryPointPNS"}
TestingStrategyFields == {"TestingStrategyVCT", "TestingStrategyHB", "TestingStrategyMOBILE",
                          "TestingStrategyHP", "TestingStrategyNP"}
TBScreeningFields == {"TBScreeningNoPresumedTB", "TBScreeningPresumedTB"}
SelfTestedFields == {"ClientSelfTestedNo", "ClientSelfTestedYes"}

\* the enumerated field set of the FeatureVector
FeatureNames == {"AgeAtTest", "MonthsSinceLastTest"} \cup GenderFields \cup KeyPopulationFields
                \cup MaritalStatusFields \cup DisabilityFields \cup EverTestedFields
                \cup TestedAsFields \cup EntryPointFields \cup TestingStrategyFields
                \cup TBScreeningFields \cup SelfTestedFields

\* InitialVariables with the GenderFemale test copied from GenderMale
InitialVariablesCopied(params) ==
  [f \in FeatureNames |->
     CASE f = "MonthsSinceLastTest" -> IF GreaterThan(params[6], Num(0)) THEN params[6].n ELSE 0
       [] f = "GenderMale" -> IF LooseEq(params[3], Str(<<"M">>)) THEN 1 ELSE 0
       [] f = "GenderFemale" -> IF LooseEq(params[3], Str(<<"M">>)) THEN 1 ELSE 0
       [] OTHER -> 0]

\* the literal that initialises predictionVariables
InitialVariables(params) ==
  [f \in FeatureNames |->
     CASE f = "MonthsSinceLastTest" -> IF GreaterThan(params[6], Num(0)) THEN params[6].n ELSE 0
       [] f = "GenderMale" -> IF LooseEq(params[3], Str(<<"M">>)) THEN 1 ELSE 0
       [] f = "GenderFemale" -> IF LooseEq(params[3], Str(<<"F">>)) THEN 1 ELSE 0
       [] OTHER -> 0]

\* convert marital status
ConvertMaritalStatus(pv, params) ==
  IF LooseEq(params[5], Concept(5555)) THEN [pv EXCEPT !["MaritalStatusMarried"] = 1]
  ELSE IF LooseEq(params[5], Concept(159715)) THEN [pv EXCEPT !["MaritalStatusPolygamous"] = 1]
  ELSE IF LooseEq(params[5], Concept(1058)) THEN [pv EXCEPT !["MaritalStatusDivorced"] = 1]
  ELSE IF LooseEq(params[5], Concept(1059)) THEN [pv EXCEPT !["MaritalStatusWidowed"] = 1]
  ELSE IF LooseEq(params[5], Concept(1057)) THEN [pv EXCEPT !["MaritalStatusSingle"] = 1]
  ELSE pv

\* if (params[0] < 15)
ConvertMinor(pv, params) ==
  IF LessThan(params[0], Num(15)) THEN [pv EXCEPT !["MaritalStatusMinor"] = 1] ELSE pv

\* convert population type
ConvertPopulationType(pv, params) ==
  IF LooseEq(params[7], Concept(164928)) THEN [pv EXCEPT !["KeyPopulationTypeGP"] = 1]
  ELSE IF LooseEq(params[7], Concept(164929)) THEN [pv EXCEPT !["KeyPopulationTypeSW"] = 1]
  ELSE pv

\* convert disability status
ConvertDisability(pv, params) ==
  IF LooseEq(params[4], Concept(1066)) THEN [pv EXCEPT !["PatientDisabledNo"] = 1]
  ELSE IF LooseEq(params[4], Concept(1065)) THEN [pv EXCEPT !["PatientDisabledDisabled"] = 1]
  ELSE pv

\* convert ever tested for hiv status
ConvertEverTested(pv, params) ==
  IF LooseEq(params[2], Concept(1065)) THEN [pv EXCEPT !["EverTestedForHIVYes"] = 1]
  ELSE IF LooseEq(params[2], Concept(1066)) THEN [pv EXCEPT !["EverTestedForHivNo"] = 1]
  ELSE pv

\* ConvertTestedAs with the first test copied from the ever-tested block
ConvertTestedAsCopied(pv, params) ==
  IF LooseEq(params[2], Concept(1065)) THEN [pv EXCEPT !["ClientTestedAsIndividual"] = 1]
  ELSE IF LooseEq(params[2], Concept(164958)) THEN [pv EXCEPT !["ClientTestedAsCouple"] = 1]
  ELSE pv

\* converter for tested as i.e. individual, couple
ConvertTestedAs(pv, params) ==
  IF LooseEq(params[2], Concept(164957)) THEN [pv EXCEPT !["ClientTestedAsIndividual"] = 1]
  ELSE IF LooseEq(params[2], Concept(164958)) THEN [pv EXCEPT !["ClientTestedAsCouple"] = 1]
  ELSE pv

\* ConvertEntryPoint with a final else that files every other code under Other
ConvertEntryPointElseOther(pv, params) ==
  IF LooseEq(params[1], Num(159940)) THEN [pv EXCEPT !["EntryPointVCT"] = 1]
  ELSE IF LooseEq(params[1], Concept(160542)) THEN [pv EXCEPT !["EntryPointOPD"] = 1]
  ELSE IF LooseEq(params[1], Concept(160456)) THEN [pv EXCEPT !["EntryPointMTC"] = 1]
  ELSE IF LooseEq(params[1], Concept(5485)) THEN [pv EXCEPT !["EntryPointIPD"] = 1]
  ELSE IF LooseEq(params[1], Concept(159939)) THEN [pv EXCEPT !["EntryPointMOBILE"] = 1]
  ELSE IF LooseEq(params[1], Concept(159938)) THEN [pv EXCEPT !["EntryPointHB"] = 1]
  ELSE IF LooseEq(params[1], Concept(162181)) THEN [pv EXCEPT !["EntryPointPEDS"] = 1]
  ELSE IF LooseEq(params[1], Concept(162223)) THEN [pv EXCEPT !["EntryPointVMMC"] = 1]
  ELSE IF LooseEq(params[1], Concept(160541)) THEN [pv EXCEPT !["EntryPointTB"] = 1]
  ELSE [pv EXCEPT !["EntryPointOther"] = 1]

\* convert entry point; the VCT rule compares with the number 159940
ConvertEntryPoint(pv, params) ==
  IF LooseEq(params[1], Num(159940)) THEN [pv EXCEPT !["EntryPointVCT"] = 1]
  ELSE IF LooseEq(params[1], Concept(160542)) THEN [pv EXCEPT !["EntryPointOPD"] = 1]
  ELSE IF LooseEq(params[1], Concept(160456)) THEN [pv EXCEPT !["EntryPointMTC"] = 1]
  ELSE IF LooseEq(params[1], Concept(5485)) THEN [pv EXCEPT !["EntryPointIPD"] = 1]
  ELSE IF LooseEq(params[1], Concept(159939)) THEN [pv EXCEPT !["EntryPointMOBILE"] = 1]
  ELSE IF LooseEq(params[1], Concept(159938)) THEN [pv EXCEPT !["EntryPointHB"] = 1]
  ELSE IF LooseEq(params[1], Concept(162181)) THEN [pv EXCEPT !["EntryPointPEDS"] = 1]
  ELSE IF LooseEq(params[1], Concept(5622)) THEN [pv EXCEPT !["EntryPointOther"] = 1]
  ELSE IF LooseEq(params[1], Concept(162223)) THEN [pv EXCEPT !["EntryPointVMMC"] = 1]
  ELSE IF LooseEq(params[1], Concept(160541)) THEN [pv EXCEPT !["EntryPointTB"] = 1]
  ELSE pv

\* convert strategy
ConvertStrategy(pv, params) ==
  IF LooseEq(params[10], Concept(159938)) THEN [pv EXCEPT !["TestingStrategyHB"] = 1]
  ELSE IF LooseEq(params[10], Concept(159939)) THEN [pv EXCEPT !["TestingStrategyMOBILE"] = 1]
  ELSE IF LooseEq(params[10], Concept(164163)) THEN [pv EXCEPT !["TestingStrategyHP"] = 1]
  ELSE IF LooseEq(params[10], Concept(164953)) THEN [pv EXCEPT !["TestingStrategyNP"] = 1]
  ELSE IF LooseEq(params[10], Concept(164954)) \/ LooseEq(params[10], Concept(164955))
       THEN [pv EXCEPT !["TestingStrategyVCT"] = 1]
  ELSE pv

\* convert HIV self test
ConvertSelfTest(pv, params) ==
  IF LooseEq(params[8], Concept(1066)) THEN [pv EXCEPT !["ClientSelfTestedNo"] = 1]
  ELSE IF LooseEq(params[8], Concept(1065)) THEN [pv EXCEPT !["ClientSelfTestedYes"] = 1]
  ELSE pv

\* convert TB screening
ConvertTBScreening(pv, params) ==
  IF LooseEq(params[9], Concept(1660)) \/ LooseEq(params[9], Concept(160737))
       THEN [pv EXCEPT !["TBScreeningNoPresumedTB"] = 1]
  ELSE IF LooseEq(params[9], Concept(142177)) \/ LooseEq(params[9], Concept(1111))
       THEN [pv EXCEPT !["TBScreeningPresumedTB"] = 1]
  ELSE pv

\* predictionVariables as it stands when the request is built
EncodeFeatures(params) ==
  ConvertTBScreening(
    ConvertSelfTest(
      ConvertStrategy(
        ConvertEntryPoint(
          ConvertTestedAs(
            ConvertEverTested(
              ConvertDisability(
                ConvertPopulationType(
                  ConvertMinor(
                    ConvertMaritalStatus(InitialVariables(params), params),
                    params), params), params), params), params), params), params), params), params)

(* ------------------------------ RawInput ------------------------------- *)

\* a well-formed input: age 20, OPD, ever tested, male, not disabled, single,
\* 0 months, general population, not self-tested, no presumed TB, HB strategy
Typical ==
  [k \in 0..10 |->
     CASE k = 0 -> Num(20)
       [] k = 1 -> Concept(160542)
       [] k = 2 -> Concept(1065)
       [] k = 3 -> Str(<<"M">>)
       [] k = 4 -> Concept(1066)
       [] k = 5 -> Concept(1057)
       [] k = 6 -> Num(0)
       [] k = 7 -> Concept(164928)
       [] k = 8 -> Concept(1066)
       [] k = 9 -> Concept(1660)
       [] k = 10 -> Concept(159938)]

\* the long-form VCT identifier and the short code
VCTLongForm == Concept(159940)
VCTShortCode == Str(Chars(159940))

\* the values tried at each position besides the typical one: the codes the
\* encoder knows, a code it does not know and, at some positions, a missing
\* element
ValuesAt ==
  [k \in 0..10 |->
     CASE k = 0 -> <<Num(10), Num(14), Num(15), Undefined>>
       [] k = 1 -> <<Num(159940), VCTShortCode, VCTLongForm, Concept(160456),
                     Concept(5485), Concept(159939), Concept(159938), Concept(162181),
                     Concept(5622), Concept(162223), Concept(160541), Concept(160539), Undefined>>
       [] k = 2 -> <<Concept(1066), Concept(164957), Concept(164958), Concept(1067)>>
       [] k = 3 -> <<Str(<<"F">>), Str(<<"O">>), Undefined>>
       [] k = 4 -> <<Concept(1065), Concept(1067)>>
       [] k = 5 -> <<Concept(5555), Concept(159715), Concept(1058), Concept(1059),
                     Concept(1060), Undefined>>
       [] k = 6 -> <<Num(0 - 1), Undefined>> \o [n \in 1..MaxMonths |-> Num(n)]
       [] k = 7 -> <<Concept(164929), Concept(164930)>>
       [] k = 8 -> <<Concept(1065), Concept(1067)>>
       [] k = 9 -> <<Concept(160737), Concept(142177), Concept(1111), Concept(1662)>>
       [] k = 10 -> <<Concept(159939), Concept(164163), Concept(164953), Concept(164954),
                      Concept(164955), Concept(164956)>>]

\* the ways to change at most n positions from position lo on: sets of
\* <<position, index into ValuesAt[position]>>
RECURSIVE Variations(_, _)
Variations(lo, n) ==
  IF n = 0 THEN {{}}
  ELSE {{}} \cup UNION {UNION {{{<<k, j>>} \cup rest : rest \in Variations(k + 1, n - 1)} :
                                 j \in 1..Len(ValuesAt[k])} : k \in lo..10}

\* Typical with the changes of a variation
Varied(variation) ==
  [k \in 0..10 |->
     IF \E d \in variation : d[1] = k
     THEN ValuesAt[k][(CHOOSE d \in variation : d[1] = k)[2]]
     ELSE Typical[k]]

\* the inputs of two invocations that run side by side
PairInputs == {Typical,
               [Typical EXCEPT ![3] = Str(<<"F">>)],
               [Typical EXCEPT ![1] = Num(159940), ![6] = Num(1)],
               [Typical EXCEPT ![0] = Num(10), ![5] = Concept(5555), ![9] = Undefined]}

(* --------------------------- Risk Classifier --------------------------- *)

\* the request body built from the encoded vector
mlScoringRequestPayloadEncoded(predictionVariables) ==
  [modelConfigs |-> [modelId |-> "hts_xgb_1211_jan_2023", encounterDate |-> "2023-03-15",
                     facilityId |-> "", debug |-> "true"],
   variableValues |-> predictionVariables]

\* the request body: the literal assigned to mlScoringRequestPayload, which
\* does not use predictionVariables
mlScoringRequestPayload(predictionVariables) ==
  [modelConfigs |-> [modelId |-> "hts_xgb_1211_jan_2023", encounterDate |-> "2023-03-15",
                     facilityId |-> "", debug |-> "true"],
   variableValues |->
    [
     Age |-> 17, births |-> 0, pregnancies |-> 0, literacy |-> 0, poverty |-> 0, anc |-> 0,
     pnc |-> 0, sba |-> 0, hiv_prev |-> 0, hiv_count |-> 0, condom |-> 0, intercourse |-> 0,
     in_union |-> 0, circumcision |-> 0, partner_away |-> 0, partner_men |-> 0,
     partner_women |-> 0, sti |-> 0, fb |-> 0, PopulationTypeGP |-> 1, PopulationTypeKP |-> 0,
     PopulationTypePRIORITY |-> 0, KeyPopulationFSW |-> 0, KeyPopulationMSM |-> 0,
     KeyPopulationNR |-> 1, KeyPopulationOther |-> 0, KeyPopulationPWID |-> 0,
     PriorityPopulationAGYW |-> 0, PriorityPopulationFISHERMEN |-> 0,
     PriorityPopulationNR |-> 1, PriorityPopulationOTHER |-> 0, DepartmentEMERGENCY |-> 0,
     DepartmentIPD |-> 1, DepartmentOPD |-> 0, DepartmentPMTCT |-> 0, DepartmentVCT |-> 0,
     IsHealthWorkerNO |-> 0, IsHealthWorkerNR |-> 1, IsHealthWorkerYES |-> 0,
     SexuallyActiveNO |-> 0, SexuallyActiveNR |-> 1, SexuallyActiveYES |-> 0,
     NewPartnerNO |-> 0, NewPartnerNR |-> 1, NewPartnerYES |-> 0,
     PartnerHIVStatusNEGATIVE |-> 0, PartnerHIVStatusNR |-> 1, PartnerHIVStatusPOSITIVE |-> 0,
     PartnerHIVStatusUNKNOWN |-> 0, NumberOfPartnersMULTIPLE |-> 0, NumberOfPartnersNR |-> 1,
     NumberOfPartnersSINGLE |-> 0, AlcoholSexALWAYS |-> 0, AlcoholSexNEVER |-> 0,
     AlcoholSexNR |-> 1, AlcoholSexSOMETIMES |-> 0, MoneySexNO |-> 0, MoneySexNR |-> 1,
     MoneySexYES |-> 0, CondomBurstNO |-> 0, CondomBurstNR |-> 1, CondomBurstYES |-> 0,
     UnknownStatusPartnerNO |-> 0, UnknownStatusPartnerNR |-> 1, UnknownStatusPartnerYES |-> 0,
     KnownStatusPartnerNO |-> 0, KnownStatusPartnerNR |-> 1, KnownStatusPartnerYES |-> 0,
     PregnantNO |-> 0, PregnantNR |-> 1, PregnantYES |-> 0, BreastfeedingMotherNO |-> 0,
     BreastfeedingMotherNR |-> 1, BreastfeedingMotherYES |-> 0, ExperiencedGBVNO |-> 0,
     ExperiencedGBVYES |-> 0, CurrentlyOnPrepNO |-> 0, CurrentlyOnPrepNR |-> 0,
     CurrentlyOnPrepYES |-> 0, CurrentlyHasSTINO |-> 0, CurrentlyHasSTINR |-> 0,
     CurrentlyHasSTIYES |-> 0, SharedNeedleNO |-> 0, SharedNeedleNR |-> 1,
     SharedNeedleYES |-> 0, NeedleStickInjuriesNO |-> 0, NeedleStickInjuriesNR |-> 1,
     NeedleStickInjuriesYES |-> 0, TraditionalProceduresNO |-> 0,
     TraditionalProceduresNR |-> 1, TraditionalProceduresYES |-> 0,
     MothersStatusNEGATIVE |-> 0, MothersStatusNR |-> 1, MothersStatusPOSITIVE |-> 0,
     MothersStatusUNKNOWN |-> 0, ReferredForTestingNO |-> 0, ReferredForTestingYES |-> 0,
     GenderFEMALE |-> 1, GenderMALE |-> 0, MaritalStatusDIVORCED |-> 0,
     MaritalStatusMARRIED |-> 0, MaritalStatusMINOR |-> 0, MaritalStatusPOLYGAMOUS |-> 1,
     MaritalStatusSINGLE |-> 0, EverTestedForHivNO |-> 0, EverTestedForHivYES |-> 1,
     MonthsSinceLastTestLASTSIXMONTHS |-> 0, MonthsSinceLastTestMORETHANTWOYEARS |-> 1,
     MonthsSinceLastTestNR |-> 0, MonthsSinceLastTestONETOTWOYEARS |-> 0,
     MonthsSinceLastTestSEVENTOTWELVE |-> 0, ClientTestedAsCOUPLE |-> 0,
     ClientTestedAsINDIVIDUAL |-> 0, EntryPointIPD |-> 0, EntryPointOPD |-> 0,
     EntryPointOTHER |-> 0, EntryPointPEDIATRIC |-> 0, EntryPointPMTCT_ANC |-> 0,
     EntryPointPMTCT_MAT_PNC |-> 0, EntryPointTB |-> 0, EntryPointVCT |-> 1,
     EntryPointVMMC |-> 0, TestStrategyHB |-> 0, TestStrategyHP |-> 0, TestStrategyINDEX |-> 0,
     TestStrategyMO |-> 0, TestStrategyNP |-> 0, TestStrategyOTHER |-> 0,
     TestStrategySNS |-> 0, TestStrategyVI |-> 0, TestStrategyVS |-> 1,
     TbScreeningCONFIRMEDTB |-> 0, TbScreeningNOPRESUMEDTB |-> 0, TbScreeningPRESUMEDTB |-> 0,
     ClientSelfTestedNO |-> 1, ClientSelfTestedYES |-> 0, CoupleDiscordantNO |-> 0,
     CoupleDiscordantNR |-> 1, CoupleDiscordantYES |-> 0, SEXUALNO |-> 0, SEXUALYES |-> 1,
     SOCIALNO |-> 1, SOCIALYES |-> 0, NONENO |-> 1, NONEYES |-> 0, NEEDLE_SHARINGNO |-> 1,
     NEEDLE_SHARINGYES |-> 0, ReceivedPrEPNO |-> 1, ReceivedPrEPYES |-> 0, ReceivedPEPNO |-> 1,
     ReceivedPEPYES |-> 0, ReceivedTBNO |-> 1, ReceivedTBYES |-> 0, ReceivedSTINO |-> 1,
     ReceivedSTIYES |-> 0, GBVSexualNO |-> 1, GBVSexualYES |-> 0, GBVPhysicalNO |-> 1,
     GBVPhysicalYES |-> 0, GBVEmotionalNO |-> 1, GBVEmotionalYES |-> 0, dayofweekFRIDAY |-> 0,
     dayofweekMONDAY |-> 0, dayofweekSATURDAY |-> 0, dayofweekSUNDAY |-> 0,
     dayofweekTHURSDAY |-> 0, dayofweekTUESDAY |-> 0, dayofweekWEDNESDAY |-> 1
    ]]

\* thresholds, in units of 10^-9
lowRiskThreshold == 2625179
mediumRiskThreshold == 10638781
highRiskThreshold == 28924102

VeryHighMessage == "Client has a very high probability of a HIV positive test result. Testing is strongly recommended"
HighMessage == "Client has a high probability of a HIV positive test result. Testing is strongly recommended"
MediumMessage == "Client has a medium probability of a HIV positive test result. Testing is recommended"
LowMessage == "Client has a low probability of a HIV positive test result. Testing may not be recommended"
NoResultsFound == "No results found"

\* x <= y
LessOrEqual(x, y) ==
  ToNumber(x).t = "number" /\ ToNumber(y).t = "number" /\ ToNumber(x).n <= ToNumber(y).n

\* a response body: whether it parses as JSON and, if it does, the shape of
\* the parsed value along the path result.predictions["probability(1)"]
Body(parses, top, result, predictions, probability) ==
  [parses |-> parses, top |-> top, result |-> result, predictions |-> predictions,
   probability |-> probability]

NotJsonBody == Body(FALSE, "undefined", "undefined", "undefined", Undefined)
NullBody == Body(TRUE, "null", "undefined", "undefined", Undefined)
EmptyObjectBody == Body(TRUE, "object", "undefined", "undefined", Undefined)
NoPredictionsBody == Body(TRUE, "object", "object", "undefined", Undefined)
NullPredictionsBody == Body(TRUE, "object", "object", "null", Undefined)
NoProbabilityBody == Body(TRUE, "object", "object", "object", Undefined)
ProbabilityBody(p) == Body(TRUE, "object", "object", "object", Num(p))

\* probabilities around the thresholds and those of the documented scenarios
Probabilities == {0, 1000000, lowRiskThreshold, lowRiskThreshold + 1, 5000000, 10000000,
                  mediumRiskThreshold, mediumRiskThreshold + 1, 20000000,
                  highRiskThreshold - 1, highRiskThreshold, highRiskThreshold + 1,
                  30000000, 1000000000}

Bodies == {NotJsonBody, NullBody, EmptyObjectBody, NoPredictionsBody, NullPredictionsBody,
           NoProbabilityBody} \cup {ProbabilityBody(p) : p \in Probabilities}

\* result?.result?.predictions
Predictions(result) ==
  IF result.top = "object" /\ result.result = "object" THEN result.predictions ELSE "undefined"

\* Classify without the lower bound of the high tier
ClassifyHighUnbounded(result) ==
  IF Predictions(result) = "object"
  THEN IF GreaterThan(result.probability, Num(highRiskThreshold)) THEN VeryHighMessage
       ELSE IF LessThan(result.probability, Num(highRiskThreshold)) THEN HighMessage
       ELSE IF GreaterThan(result.probability, Num(lowRiskThreshold)) THEN MediumMessage
       ELSE IF LessOrEqual(result.probability, Num(lowRiskThreshold)) THEN LowMessage
       ELSE NoResultsFound
  ELSE NoResultsFound

\* Classify without the test for predictions, a missing probability read as 0
ClassifyUnguarded(result) ==
  LET p == IF Predictions(result) = "object" /\ result.probability.t = "number"
           THEN result.probability ELSE Num(0)
  IN IF GreaterThan(p, Num(highRiskThreshold)) THEN VeryHighMessage
     ELSE IF LessThan(p, Num(highRiskThreshold)) /\ GreaterThan(p, Num(mediumRiskThreshold))
          THEN HighMessage
     ELSE IF GreaterThan(p, Num(lowRiskThreshold)) THEN MediumMessage
     ELSE IF LessOrEqual(p, Num(lowRiskThreshold)) THEN LowMessage
     ELSE NoResultsFound

\* the callback given to response.json().then
Classify(result) ==
  IF Predictions(result) = "object"
  THEN IF GreaterThan(result.probability, Num(highRiskThreshold)) THEN VeryHighMessage
       ELSE IF LessThan(result.probability, Num(highRiskThreshold))
               /\ GreaterThan(result.probability, Num(mediumRiskThreshold)) THEN HighMessage
       ELSE IF GreaterThan(result.probability, Num(lowRiskThreshold)) THEN MediumMessage
       ELSE IF LessOrEqual(result.probability, Num(lowRiskThreshold)) THEN LowMessage
       ELSE NoResultsFound
  ELSE NoResultsFound

(* ------------------------------ the state ------------------------------ *)

\* two invocations of getMLRiskScore may be in flight at a time
Calls == {"a", "b"}

VARIABLES
  pc,                   \* per invocation: where it stands
  params,               \* per invocation: its argument
  predictionVariables,  \* per invocation: the encoded FeatureVector
  requests,             \* per invocation: the request bodies given to fetch
  net,                  \* per invocation: what the remote endpoint has done
  outcome,              \* per invocation: how the returned promise settled
  thread,               \* the invocation running synchronous code, or "none"
  formPc,               \* fetchOpenMRSForm: where it stands
  nameOrUUID,           \* fetchOpenMRSForm: its argument
  formRequests,         \* fetchOpenMRSForm: the URLs given to openmrsFetch
  formNet,              \* fetchOpenMRSForm: what the server has done
  formOutcome           \* fetchOpenMRSForm: how the returned promise settled

mlVars == <<pc, params, predictionVariables, requests, net, outcome, thread>>
formVars == <<formPc, nameOrUUID, formRequests, formNet, formOutcome>>
vars == <<pc, params, predictionVariables, requests, net, outcome, thread,
          formPc, nameOrUUID, formRequests, formNet, formOutcome>>

Pending == [kind |-> "pending", value |-> ""]
Resolved(v) == [kind |-> "resolved", value |-> v]
Rejected(e) == [kind |-> "rejected", value |-> e]

NoTraffic == [status |-> "none", body |-> NotJsonBody]
InFlight == [status |-> "pending", body |-> NotJsonBody]
Responded(body) == [status |-> "responded", body |-> body]
Failed == [status |-> "failed", body |-> NotJsonBody]

ZeroVariables == [f \in FeatureNames |-> 0]

(* --------------------------- fetchOpenMRSForm --------------------------- *)

Forms == {"form1", "form2", "form3"}
UuidNames == {"0a1b2c3d-0000-4000-8000-000000000001", "0a1b2c3d-0000-4000-8000-000000000002"}
PlainNames == {"POC Vitals", "HTS Screening", "Covid"}
Names == {""} \cup PlainNames \cup UuidNames

\* isUuid of ../utils/boolean-utils
isUuid(value) == value \in UuidNames

NullValue == [t |-> "null", id |-> ""]
FormValue(f) == [t |-> "form", id |-> f]
ErrorValue(m) == [t |-> "Error", id |-> m]

FormPending == [kind |-> "pending", value |-> NullValue]
FormResolved(v) == [kind |-> "resolved", value |-> v]
FormRejected == [kind |-> "rejected", value |-> NullValue]

\* response data: a form (lookup by UUID) or a search result whose results
\* field may be missing
FormData(form, hasResults, results) ==
  [form |-> form, hasResults |-> hasResults, results |-> results]

ResultLists == UNION {[1..n -> Forms] : n \in 0..MaxResults}

FormNoTraffic == [status |-> "none", data |-> FormData("", FALSE, <<>>)]
FormInFlight == [status |-> "pending", data |-> FormData("", FALSE, <<>>)]
FormResponded(d) == [status |-> "responded", data |-> d]
FormFailed == [status |-> "failed", data |-> FormData("", FALSE, <<>>)]

\* the URL chosen from the argument
FormUrl(name) ==
  IF isUuid(name) THEN [path |-> "/ws/rest/v1/form/", arg |-> name, isUUID |-> TRUE]
  ELSE [path |-> "/ws/rest/v1/form?q=", arg |-> name, isUUID |-> FALSE]

\* the value returned once openmrsFetch has answered
FormResult(isUUID, data) ==
  IF isUUID THEN FormValue(data.form)
  ELSE IF data.hasResults /\ Len(data.results) # 0 THEN FormValue(data.results[1])
  ELSE ErrorValue("Form was not found")

\* the call up to the first await: null for an empty argument, else a request
FormCall ==
  /\ formPc = "start"
  /\ IF nameOrUUID = ""
     THEN /\ formOutcome' = FormResolved(NullValue)
          /\ formPc' = "done"
          /\ UNCHANGED <<formRequests, formNet>>
     ELSE /\ formRequests' = Append(formRequests, FormUrl(nameOrUUID))
          /\ formNet' = FormInFlight
          /\ formPc' = "awaitFetch"
          /\ UNCHANGED formOutcome
  /\ UNCHANGED <<nameOrUUID, mlVars>>

\* the server answers the request
FormServerResponds ==
  /\ formNet.status = "pending"
  /\ LET isUUID == formRequests[Len(formRequests)].isUUID IN
       \/ /\ isUUID
          /\ \E f \in Forms : formNet' = FormResponded(FormData(f, FALSE, <<>>))
       \/ /\ ~isUUID
          /\ \E rs \in ResultLists : formNet' = FormResponded(FormData("", TRUE, rs))
       \/ /\ ~isUUID
          /\ formNet' = FormResponded(FormData("", FALSE, <<>>))
  /\ UNCHANGED <<formPc, nameOrUUID, formRequests, formOutcome, mlVars>>

\* openmrsFetch fails (transport failure or an error status)
FormServerFails ==
  /\ formNet.status = "pending"
  /\ formNet' = FormFailed
  /\ UNCHANGED <<formPc, nameOrUUID, formRequests, formOutcome, mlVars>>

\* the code after `await openmrsFetch(url)`
FormResume ==
  /\ formPc = "awaitFetch"
  /\ formNet.status \in {"responded", "failed"}
  /\ IF formNet.status = "failed"
     THEN formOutcome' = FormRejected
     ELSE formOutcome' =
            FormResolved(FormResult(formRequests[Len(formRequests)].isUUID, formNet.data))
  /\ formPc' = "done"
  /\ UNCHANGED <<nameOrUUID, formRequests, formNet, mlVars>>

(* ---------------------------- getMLRiskScore ---------------------------- *)

\* lines 109-271: predictionVariables is built and filled in
Encode(i) ==
  /\ pc[i] = "start"
  /\ thread = "none"
  /\ predictionVariables' = [predictionVariables EXCEPT ![i] = EncodeFeatures(params[i])]
  /\ pc' = [pc EXCEPT ![i] = "encoded"]
  /\ thread' = i
  /\ UNCHANGED <<params, requests, net, outcome, formVars>>

\* lines 273-468: the payload is built and given to fetch; the call suspends
SendRequest(i) ==
  /\ pc[i] = "encoded"
  /\ thread = i
  /\ requests' = [requests EXCEPT
                    ![i] = Append(@, mlScoringRequestPayload(predictionVariables[i]))]
  /\ net' = [net EXCEPT ![i] = InFlight]
  /\ pc' = [pc EXCEPT ![i] = "awaitFetch"]
  /\ thread' = "none"
  /\ UNCHANGED <<params, predictionVariables, outcome, formVars>>

\* the remote endpoint answers with some body
RemoteResponds(i) ==
  /\ net[i].status = "pending"
  /\ \E body \in Bodies : net' = [net EXCEPT ![i] = Responded(body)]
  /\ UNCHANGED <<pc, params, predictionVariables, requests, outcome, thread, formVars>>

\* the request fails at the transport level
TransportFails(i) ==
  /\ net[i].status = "pending"
  /\ net' = [net EXCEPT ![i] = Failed]
  /\ UNCHANGED <<pc, params, predictionVariables, requests, outcome, thread, formVars>>

\* FetchSettles with the failure caught and the sentinel returned
FetchSettlesCaught(i) ==
  /\ pc[i] = "awaitFetch"
  /\ thread = "none"
  /\ net[i].status \in {"responded", "failed"}
  /\ IF net[i].status = "failed"
     THEN /\ outcome' = [outcome EXCEPT ![i] = Resolved(NoResultsFound)]
          /\ pc' = [pc EXCEPT ![i] = "done"]
     ELSE /\ pc' = [pc EXCEPT ![i] = "awaitJson"]
          /\ UNCHANGED outcome
  /\ UNCHANGED <<params, predictionVariables, requests, net, thread, formVars>>

\* FetchSettles with a timeout: the call gives up while the request is pending
FetchSettlesTimeout(i) ==
  /\ pc[i] = "awaitFetch"
  /\ thread = "none"
  /\ IF net[i].status # "responded"
     THEN /\ outcome' = [outcome EXCEPT ![i] = Rejected("TypeError")]
          /\ pc' = [pc EXCEPT ![i] = "rejected"]
     ELSE /\ pc' = [pc EXCEPT ![i] = "awaitJson"]
          /\ UNCHANGED outcome
  /\ UNCHANGED <<params, predictionVariables, requests, net, thread, formVars>>

\* `await fetch(...)` settles: a failure rejects the returned promise,
\* a response goes on to response.json()
FetchSettles(i) ==
  /\ pc[i] = "awaitFetch"
  /\ thread = "none"
  /\ net[i].status \in {"responded", "failed"}
  /\ IF net[i].status = "failed"
     THEN /\ outcome' = [outcome EXCEPT ![i] = Rejected("TypeError")]
          /\ pc' = [pc EXCEPT ![i] = "rejected"]
     ELSE /\ pc' = [pc EXCEPT ![i] = "awaitJson"]
          /\ UNCHANGED outcome
  /\ UNCHANGED <<params, predictionVariables, requests, net, thread, formVars>>

\* response.json() settles: a body that does not parse rejects the returned
\* promise, a parsed body is classified by the callback
JsonSettles(i) ==
  /\ pc[i] = "awaitJson"
  /\ thread = "none"
  /\ IF ~net[i].body.parses
     THEN /\ outcome' = [outcome EXCEPT ![i] = Rejected("SyntaxError")]
          /\ pc' = [pc EXCEPT ![i] = "rejected"]
     ELSE /\ outcome' = [outcome EXCEPT ![i] = Resolved(Classify(net[i].body))]
          /\ pc' = [pc EXCEPT ![i] = "done"]
  /\ UNCHANGED <<params, predictionVariables, requests, net, thread, formVars>>

(* --------------------------- specifications ---------------------------- *)

IdleCalls ==
  /\ pc = [i \in Calls |-> "idle"]
  /\ params = [i \in Calls |-> Typical]

FreshCalls ==
  /\ predictionVariables = [i \in Calls |-> ZeroVariables]
  /\ requests = [i \in Calls |-> <<>>]
  /\ net = [i \in Calls |-> NoTraffic]
  /\ outcome = [i \in Calls |-> Pending]
  /\ thread = "none"

FreshForm ==
  /\ formRequests = <<>>
  /\ formNet = FormNoTraffic
  /\ formOutcome = FormPending

IdleForm ==
  /\ formPc = "idle"
  /\ nameOrUUID = ""
  /\ FreshForm

\* one invocation of getMLRiskScore with any RawInput
Init ==
  /\ \E variation \in Variations(0, MaxVaried) :
       params = [i \in Calls |-> IF i = "a" THEN Varied(variation) ELSE Typical]
  /\ pc = [i \in Calls |-> IF i = "a" THEN "start" ELSE "idle"]
  /\ FreshCalls
  /\ IdleForm

\* two invocations of getMLRiskScore
InitPair ==
  /\ params \in [Calls -> PairInputs]
  /\ pc = [i \in Calls |-> "start"]
  /\ FreshCalls
  /\ IdleForm

\* one call of fetchOpenMRSForm
InitForm ==
  /\ IdleCalls
  /\ FreshCalls
  /\ formPc = "start"
  /\ nameOrUUID \in Names
  /\ FreshForm

Next ==
  \E i \in Calls :
    \/ Encode(i)
    \/ SendRequest(i)
    \/ RemoteResponds(i)
    \/ TransportFails(i)
    \/ FetchSettles(i)
    \/ JsonSettles(i)

NextForm ==
  \/ FormCall
  \/ FormServerResponds
  \/ FormServerFails
  \/ FormResume

Spec == Init /\ [][Next]_vars
SpecPair == InitPair /\ [][Next]_vars
SpecForm == InitForm /\ [][NextForm]_vars

(* ------------------------------- claims -------------------------------- *)

Terminal(i) == pc[i] \in {"done", "rejected"}
Encoded(i) == pc[i] \notin {"idle", "start"}
HasProbability(i) ==
  /\ net[i].status = "responded"
  /\ net[i].body.parses
  /\ net[i].body.predictions = "object"
  /\ net[i].body.probability.t = "number"
Probability(i) == net[i].body.probability.n

\* the tiers as the thresholds split them, a threshold itself belonging to
\* the lower tier
TierOf(p) ==
  IF p > highRiskThreshold THEN VeryHighMessage
  ELSE IF p > mediumRiskThreshold THEN HighMessage
  ELSE IF p > lowRiskThreshold THEN MediumMessage
  ELSE LowMessage

\* C1: for every probability p the call returns the tier message of p:
\* very high above the high threshold, high above the medium threshold up to
\* and including the high threshold, medium above the low threshold up to and
\* including the medium threshold, low otherwise.
C1_TierPartition ==
  \A i \in Calls :
    (pc[i] = "done" /\ HasProbability(i)) => outcome[i] = Resolved(TierOf(Probability(i)))

\* C2 as stated: 0.03 gives very high, 0.01 gives high, 0.005 gives medium
\* and 0.001 gives low.
C2_ScenariosAsStated ==
  \A i \in Calls :
    (pc[i] = "done" /\ HasProbability(i)) =>
      /\ Probability(i) = 30000000 => outcome[i] = Resolved(VeryHighMessage)
      /\ Probability(i) = 10000000 => outcome[i] = Resolved(HighMessage)
      /\ Probability(i) = 5000000 => outcome[i] = Resolved(MediumMessage)
      /\ Probability(i) = 1000000 => outcome[i] = Resolved(LowMessage)

\* C2 amended: 0.03 gives very high, 0.01 gives medium (it lies below the
\* medium threshold 0.010638781), 0.005 gives medium and 0.001 gives low.
C2_Scenarios ==
  \A i \in Calls :
    (pc[i] = "done" /\ HasProbability(i)) =>
      /\ Probability(i) = 30000000 => outcome[i] = Resolved(VeryHighMessage)
      /\ Probability(i) = 10000000 => outcome[i] = Resolved(MediumMessage)
      /\ Probability(i) = 5000000 => outcome[i] = Resolved(MediumMessage)
      /\ Probability(i) = 1000000 => outcome[i] = Resolved(LowMessage)

C2_Witness ==
  \E i \in Calls :
    /\ pc[i] = "done"
    /\ HasProbability(i)
    /\ Probability(i) = 10000000
    /\ outcome[i] = Resolved(MediumMessage)

\* the parsed bodies that have no result.predictions field
NoPredictionsField(body) ==
  /\ body.parses
  /\ \/ body.top # "object"
     \/ body.result # "object"
     \/ body.predictions = "undefined"

\* C3: when the parsed response has no result.predictions field, the call
\* does not fail, and once it has returned its value is "No results found".
C3_MissingPredictions ==
  \A i \in Calls :
    (net[i].status = "responded" /\ NoPredictionsField(net[i].body)) =>
      /\ outcome[i].kind # "rejected"
      /\ pc[i] # "rejected"
      /\ Terminal(i) => outcome[i] = Resolved(NoResultsFound)

C3_Witness ==
  \E i \in Calls :
    /\ pc[i] = "done"
    /\ net[i] = Responded(EmptyObjectBody)
    /\ outcome[i] = Resolved(NoResultsFound)

\* the request failed, or its response body is not JSON
ScoringFailed(i) ==
  \/ net[i].status = "failed"
  \/ net[i].status = "responded" /\ ~net[i].body.parses

\* C4: after a transport failure or a body that is not JSON the call never
\* resolves (neither to a tier message nor to the sentinel), it ends
\* rejected, and only the one request has been issued.
C4_FailurePropagates ==
  \A i \in Calls :
    ScoringFailed(i) =>
      /\ outcome[i].kind # "resolved"
      /\ pc[i] # "done"
      /\ Terminal(i) => outcome[i].kind = "rejected"
      /\ Len(requests[i]) = 1

C4_Witness ==
  \E i \in Calls :
    /\ pc[i] = "rejected"
    /\ net[i].status = "failed"
    /\ outcome[i].kind = "rejected"

\* C5: when the entry-point code is the short VCT code or the long-form VCT
\* identifier, EntryPointVCT is 1 and every other entry-point field is 0.
C5_VCTEntryPoint ==
  \A i \in Calls :
    (Encoded(i) /\ params[i][1] \in {VCTShortCode, VCTLongForm}) =>
      \A f \in EntryPointFields :
        predictionVariables[i][f] = (IF f = "EntryPointVCT" THEN 1 ELSE 0)

AtMostOne(pv, group) ==
  /\ \A f \in group : pv[f] \in {0, 1}
  /\ Cardinality({f \in group : pv[f] = 1}) <= 1

\* C6 as stated: every group, the marital-status group with
\* MaritalStatusMinor in it, has at most one indicator at 1.
C6_GroupsAsStated ==
  \A i \in Calls :
    Encoded(i) =>
      \A group \in {GenderFields, MaritalStatusFields, KeyPopulationFields, DisabilityFields,
                    EverTestedFields, TestedAsFields, EntryPointFields,
                    TestingStrategyFields, TBScreeningFields, SelfTestedFields} :
        AtMostOne(predictionVariables[i], group)

\* C6 amended: every group has at most one indicator at 1, the
\* marital-status group being the five coded fields; MaritalStatusMinor is
\* 0 or 1 and may be 1 next to one of them.
C6_Groups ==
  \A i \in Calls :
    Encoded(i) =>
      /\ \A group \in {GenderFields, MaritalCodedFields, KeyPopulationFields, DisabilityFields,
                       EverTestedFields, TestedAsFields, EntryPointFields,
                       TestingStrategyFields, TBScreeningFields, SelfTestedFields} :
           AtMostOne(predictionVariables[i], group)
      /\ predictionVariables[i]["MaritalStatusMinor"] \in {0, 1}

C6_Witness ==
  \E i \in Calls :
    /\ Encoded(i)
    /\ predictionVariables[i]["MaritalStatusMinor"] = 1
    /\ predictionVariables[i]["MaritalStatusMarried"] = 1
    /\ predictionVariables[i]["GenderMale"] = 1

\* the groups filled in from a coded position: the position, the
\* identifiers of the group and its fields
CodedGroup(pos, known, fields) == [pos |-> pos, known |-> known, fields |-> fields]

CodedGroups(marital) ==
  {CodedGroup(3, {Str(<<"M">>), Str(<<"F">>)}, GenderFields),
   CodedGroup(5, {Concept(5555), Concept(159715), Concept(1058), Concept(1059), Concept(1057)},
              marital),
   CodedGroup(7, {Concept(164928), Concept(164929)}, KeyPopulationFields),
   CodedGroup(4, {Concept(1066), Concept(1065)}, DisabilityFields),
   CodedGroup(2, {Concept(1065), Concept(1066)}, EverTestedFields),
   CodedGroup(2, {Concept(164957), Concept(164958)}, TestedAsFields),
   CodedGroup(1, {Num(159940), VCTLongForm, Concept(160542), Concept(160456), Concept(5485),
                  Concept(159939), Concept(159938), Concept(162181), Concept(5622),
                  Concept(162223), Concept(160541)}, EntryPointFields),
   CodedGroup(10, {Concept(159938), Concept(159939), Concept(164163), Concept(164953),
                   Concept(164954), Concept(164955)}, TestingStrategyFields),
   CodedGroup(9, {Concept(1660), Concept(160737), Concept(142177), Concept(1111)},
              TBScreeningFields),
   CodedGroup(8, {Concept(1066), Concept(1065)}, SelfTestedFields)}

GroupsAsStated == CodedGroups(MaritalStatusFields)
GroupsBySource == CodedGroups(MaritalCodedFields)

Unrecognized(v, known) == \A c \in known : ~LooseEq(v, c)

UnknownStaysZero(i, groups) ==
  /\ pc[i] = "encoded" => outcome[i] = Pending
  /\ Encoded(i) =>
       /\ DOMAIN predictionVariables[i] = FeatureNames
       /\ \A g \in groups :
            Unrecognized(params[i][g.pos], g.known) =>
              \A f \in g.fields : predictionVariables[i][f] = 0

\* C7 as stated: a code that matches no identifier of its group leaves
\* every field of the group at 0 (MaritalStatusMinor being a field of the
\* marital-status group), encoding raises no error and the vector has
\* exactly the enumerated fields.
C7_UnknownAsStated == \A i \in Calls : UnknownStaysZero(i, GroupsAsStated)

\* C7 amended: a code that matches no identifier of its group leaves every
\* field that is set from that code at 0 (for the marital-status code the
\* five coded fields: MaritalStatusMinor follows the age), encoding raises
\* no error and the vector has exactly the enumerated fields.
C7_UnknownStaysZero == \A i \in Calls : UnknownStaysZero(i, GroupsBySource)

C7_Witness ==
  \E i \in Calls :
    /\ Encoded(i)
    /\ params[i][1] = Concept(160539)
    /\ params[i][5] = Concept(1060)
    /\ \A f \in EntryPointFields \cup MaritalCodedFields : predictionVariables[i][f] = 0

\* C8: fetchOpenMRSForm resolves to a form or to null: to null without a
\* request for an empty argument, and to null for a name that is not a UUID
\* and whose search has no results.
C8_FormOrNull ==
  (formPc = "done" /\ formOutcome.kind = "resolved") =>
    /\ formOutcome.value.t \in {"form", "null"}
    /\ nameOrUUID = "" => formOutcome.value = NullValue /\ formRequests = <<>>
    /\ (nameOrUUID \in PlainNames /\ ~(formNet.data.hasResults /\ formNet.data.results # <<>>))
         => formOutcome.value = NullValue

\* C9: the request bodies of two invocations are the same whatever their
\* inputs, none carries the encoded FeatureVector, and two invocations that
\* got the same response end with the same outcome.
C9_RequestIndependent ==
  \A i, j \in Calls :
    /\ (requests[i] # <<>> /\ requests[j] # <<>>) => requests[i] = requests[j]
    /\ requests[i] # <<>> =>
         \A k \in 1..Len(requests[i]) :
           requests[i][k].variableValues # predictionVariables[i]
    /\ (Terminal(i) /\ Terminal(j) /\ net[i] = net[j]) => outcome[i] = outcome[j]

C9_Witness ==
  /\ params["a"] # params["b"]
  /\ predictionVariables["a"] # predictionVariables["b"]
  /\ pc["a"] = "done" /\ pc["b"] = "done"
  /\ net["a"] = net["b"]
  /\ requests["a"] = requests["b"] /\ Len(requests["a"]) = 1

\* C10: the request is sent after encoding has completed, an invocation
\* issues at most one request and exactly one before it ends, it ends only
\* after a response or a transport failure, and while the endpoint has not
\* answered it stays suspended with its promise pending.
C10_OneRequestAwaited ==
  \A i \in Calls :
    /\ Len(requests[i]) <= 1
    /\ pc[i] \in {"idle", "start", "encoded"} => requests[i] = <<>> /\ net[i].status = "none"
    /\ requests[i] # <<>> => Encoded(i)
    /\ Terminal(i) => Len(requests[i]) = 1 /\ net[i].status \in {"responded", "failed"}
    /\ outcome[i].kind # "pending" => Terminal(i)
    /\ net[i].status = "pending" => pc[i] = "awaitFetch" /\ outcome[i] = Pending

C10_Witness ==
  \E i \in Calls :
    /\ pc[i] = "done"
    /\ Len(requests[i]) = 1
    /\ net[i].status = "responded"
    /\ outcome[i].kind = "resolved"

\* C11: the ever-tested and the tested-as indicators are both set from
\* params[2], so at most one of EverTestedForHIVYes, EverTestedForHivNo,
\* ClientTestedAsIndividual and ClientTestedAsCouple is 1, and the one that
\* is 1 is the one params[2] names.
C11_EverTestedOrTestedAs ==
  \A i \in Calls :
    Encoded(i) =>
      /\ AtMostOne(predictionVariables[i], EverTestedFields \cup TestedAsFields)
      /\ \A f \in EverTestedFields \cup TestedAsFields :
           predictionVariables[i][f] = 1 =>
             params[i][2] = (CASE f = "EverTestedForHIVYes" -> Concept(1065)
                               [] f = "EverTestedForHivNo" -> Concept(1066)
                               [] f = "ClientTestedAsIndividual" -> Concept(164957)
                               [] f = "ClientTestedAsCouple" -> Concept(164958))

C11_Witness ==
  \E i \in Calls :
    /\ Encoded(i)
    /\ params[i][2] = Concept(164957)
    /\ predictionVariables[i]["ClientTestedAsIndividual"] = 1
    /\ \A f \in EverTestedFields : predictionVariables[i][f] = 0

====
